---- MODULE Spec2Model ----
(***************************************************************************)
(* Model of server/events/repoconfig/reader.go: the Reader that loads and  *)
(* validates atlantis.yaml and resolves the plan and apply stages of a     *)
(* project into an ordered list of steps.                                  *)
(*                                                                         *)
(* State: the Reader's fields, the filesystem it reads (a partial map from *)
(* path to file) and the record of the last call made on the Reader (its   *)
(* arguments, return values and the informational messages it logged).     *)
(***************************************************************************)
EXTENDS Integers, Sequences, FiniteSets, TLC

VARIABLES reader, fs, ret

vars == <<reader, fs, ret>>

----------------------------------------------------------------------------
(* Bounds of the model *)

\* longest projects list of a configuration
MaxProjects == 2
\* most steps a workflow declares, plan and apply stages together
MaxSteps == 2

----------------------------------------------------------------------------
(* Program constants *)

AtlantisYAMLFilename == "atlantis.yaml"
PlanStageName == "plan"
ApplyStageName == "apply"
\* the only schema version ParseAndValidate accepts
SupportedVersion == 2

----------------------------------------------------------------------------
(* Values *)

SeqsUpTo(S, n) == UNION {[1..k -> S] : k \in 0..n}

\* A Go error value; Nil is the nil error.  wrap is the chain of contexts
\* added by errors.Wrapf, outermost first.
Nil == <<>>
Error(kind, index, dir, workspace, key) ==
    [kind |-> kind, index |-> index, dir |-> dir, workspace |-> workspace,
     key |-> key, wrap |-> <<>>]

Wrapf(err, context) == [err EXCEPT !.wrap = <<context>> \o @]

\* filepath.Join of a directory and one further element
Join(dir, elem) == <<dir, elem>>

\* The zero value of RepoConfig (var repoConfig RepoConfig)
ZeroConfig == [Version |-> 0, Projects |-> <<>>, Workflows |-> <<>>]

\* The zero value of StepMeta, carried by a nil Step
ZeroMeta ==
    [Log |-> "", Workspace |-> "", AbsolutePath |-> <<>>,
     DirRelativeToRepoRoot |-> "", TerraformVersion |-> "",
     TerraformExecutor |-> "", ExtraCommentArgs |-> <<>>, Username |-> ""]

\* The nil Step interface value (var step Step, never assigned)
NilStep == [Type |-> "nil", ExtraArgs |-> <<>>, Meta |-> ZeroMeta]

----------------------------------------------------------------------------
(* The filesystem *)

\* ioutil.ReadFile: a path outside the map does not exist (os.IsNotExist);
\* a file that exists but is not readable fails with another error.
ReadFile(files, path) ==
    IF path \notin DOMAIN files
      THEN [data |-> <<>>, err |-> <<Error("not_exist", -1, "", "", "")>>]
      ELSE IF ~files[path].readable
        THEN [data |-> <<>>, err |-> <<Error("io", -1, "", "", "")>>]
        ELSE [data |-> <<files[path].data>>, err |-> Nil]

\* Variant: the not-exist case is never told apart from other read errors.
IsNotExistNever(err) == FALSE

IsNotExist(err) == err # Nil /\ err[1].kind = "not_exist"

\* yaml.UnmarshalStrict into RepoConfig.  The bytes of a file are modelled by
\* what the decoder makes of them: their form (malformed YAML, a field the
\* schema does not declare, or a document of the schema) and, for a document
\* of the schema, the decoded value.  On failure the target keeps its zero
\* value.
UnmarshalStrict(configData) ==
    IF configData.form = "schema_ok"
      THEN [config |-> configData.cfg, err |-> Nil]
      ELSE [config |-> ZeroConfig,
            err |-> <<Error("yaml", -1, "", "", configData.form)>>]

----------------------------------------------------------------------------
(* Reader.ParseAndValidate *)

RECURSIVE EmptyDirIndexLast(_, _)
\* Variant: the loop runs to its end and keeps the last empty dir it saw.
EmptyDirIndexLast(projects, pos) ==
    IF pos > Len(projects) THEN -1
    ELSE LET later == EmptyDirIndexLast(projects, pos + 1)
         IN  IF later # -1 THEN later
             ELSE IF projects[pos].Dir = "" THEN pos - 1
             ELSE -1

RECURSIVE EmptyDirIndex(_, _)
\* for i, project := range repoConfig.Projects: the index (from 0, as Go
\* counts) of the first project from position pos on whose Dir is empty,
\* or -1 when the loop runs to its end
EmptyDirIndex(projects, pos) ==
    IF pos > Len(projects) THEN -1
    ELSE IF projects[pos].Dir = "" THEN pos - 1
    ELSE EmptyDirIndex(projects, pos + 1)

ParseAndValidate(configData) ==
    LET u == UnmarshalStrict(configData)
        repoConfig == u.config
    IN  IF u.err # Nil
          THEN [config |-> repoConfig, err |-> u.err]
        ELSE IF repoConfig.Version # SupportedVersion
          THEN [config |-> repoConfig,
                err |-> <<Error("version", -1, "", "", "")>>]
        ELSE IF Len(repoConfig.Projects) = 0
          THEN [config |-> repoConfig,
                err |-> <<Error("projects", -1, "", "", "")>>]
        ELSE LET i == EmptyDirIndex(repoConfig.Projects, 1)
             IN  IF i # -1
                   THEN [config |-> repoConfig,
                         err |-> <<Error("dir", i, "", "", "")>>]
                   ELSE [config |-> repoConfig, err |-> Nil]

----------------------------------------------------------------------------
(* Reader.ReadConfig *)

\* Returns (*RepoConfig, error): config is <<>> for the nil pointer.
ReadConfig(files, repoDir) ==
    LET configFile == Join(repoDir, AtlantisYAMLFilename)
        f == ReadFile(files, configFile)
    IN  IF f.err # Nil /\ IsNotExist(f.err)
          THEN [config |-> <<>>, err |-> Nil]
        ELSE IF f.err # Nil
          THEN [config |-> <<>>,
                err |-> <<Wrapf(f.err[1], "unable to read atlantis.yaml file")>>]
        ELSE LET pv == ParseAndValidate(f.data[1])
             IN  IF pv.err # Nil
                   THEN [config |-> <<>>,
                         err |-> <<Wrapf(pv.err[1], "parsing atlantis.yaml")>>]
                   ELSE [config |-> <<pv.config>>, err |-> pv.err]

----------------------------------------------------------------------------
(* Step construction *)

buildMeta(r, log, repoDir, workspace, relProjectPath, extraCommentArgs, username) ==
    [Log |-> log,
     Workspace |-> workspace,
     AbsolutePath |-> Join(repoDir, relProjectPath),
     DirRelativeToRepoRoot |-> relProjectPath,
     TerraformVersion |-> r.DefaultTFVersion,
     TerraformExecutor |-> r.TerraformExecutor,
     ExtraCommentArgs |-> extraCommentArgs,
     Username |-> username]

InitStep(meta, extraArgs) == [Type |-> "init", ExtraArgs |-> extraArgs, Meta |-> meta]
PlanStep(meta, extraArgs) == [Type |-> "plan", ExtraArgs |-> extraArgs, Meta |-> meta]
ApplyStep(meta, extraArgs) == [Type |-> "apply", ExtraArgs |-> extraArgs, Meta |-> meta]

defaultPlanSteps(r, log, repoDir, workspace, relProjectPath, extraCommentArgs, username) ==
    LET meta == buildMeta(r, log, repoDir, workspace, relProjectPath,
                          extraCommentArgs, username)
    IN  <<InitStep(meta, <<>>), PlanStep(meta, <<>>)>>

defaultApplySteps(r, log, repoDir, workspace, relProjectPath, extraCommentArgs, username) ==
    LET meta == buildMeta(r, log, repoDir, workspace, relProjectPath,
                          extraCommentArgs, username)
    IN  <<ApplyStep(meta, <<>>)>>

\* The switch on stepConfig.StepType: no case assigns step for any other
\* type, and step keeps the nil value it was declared with.
MakeStep(stepConfig, meta) ==
    CASE stepConfig.StepType = "init"  -> InitStep(meta, stepConfig.ExtraArgs)
      [] stepConfig.StepType = "plan"  -> PlanStep(meta, stepConfig.ExtraArgs)
      [] stepConfig.StepType = "apply" -> ApplyStep(meta, stepConfig.ExtraArgs)
      [] OTHER -> NilStep

RECURSIVE BuildStepsPrepending(_, _, _, _)
\* Variant: each step is put in front of the list built so far.
BuildStepsPrepending(stepsConfig, meta, pos, steps) ==
    IF pos > Len(stepsConfig) THEN steps
    ELSE BuildStepsPrepending(stepsConfig, meta, pos + 1,
                              <<MakeStep(stepsConfig[pos], meta)>> \o steps)

RECURSIVE BuildSteps(_, _, _, _)
\* for _, stepConfig := range stepsConfig { ...; steps = append(steps, step) }
\* from position pos on, steps being the list built so far
BuildSteps(stepsConfig, meta, pos, steps) ==
    IF pos > Len(stepsConfig) THEN steps
    ELSE BuildSteps(stepsConfig, meta, pos + 1,
                    Append(steps, MakeStep(stepsConfig[pos], meta)))

\* stepsConfig of the requested stage
StageSteps(stageName, workflow) ==
    IF stageName = PlanStageName THEN workflow.Plan.Steps
    ELSE workflow.Apply.Steps

----------------------------------------------------------------------------
(* Reader.BuildStage *)

\* Variant: the workspace is not compared.
MatchesDirOnly(p, relProjectPath, workspace) ==
    p.Dir = relProjectPath

\* if p.Dir == relProjectPath && p.Workspace == workspace
Matches(p, relProjectPath, workspace) ==
    p.Dir = relProjectPath /\ p.Workspace = workspace

RECURSIVE LastMatch(_, _, _, _)
\* Variant: the loop runs to its end and the last matching project decides.
LastMatch(projects, relProjectPath, workspace, pos) ==
    IF pos > Len(projects) THEN 0
    ELSE LET later == LastMatch(projects, relProjectPath, workspace, pos + 1)
         IN  IF later # 0 THEN later
             ELSE IF Matches(projects[pos], relProjectPath, workspace) THEN pos
             ELSE 0

RECURSIVE FirstMatch(_, _, _, _)
\* for _, p := range config.Projects: the position of the first project from
\* pos on that matches the request (the loop body returns there), or 0 when
\* the loop runs to its end
FirstMatch(projects, relProjectPath, workspace, pos) ==
    IF pos > Len(projects) THEN 0
    ELSE IF Matches(projects[pos], relProjectPath, workspace) THEN pos
    ELSE FirstMatch(projects, relProjectPath, workspace, pos + 1)

\* Variant: the empty workflow name is looked up like any other.
BuildProjectNoEmptyName(r, config, p, stageName, log, repoDir, workspace, relProjectPath, extraCommentArgs, username, defaults) ==
    LET workflowName == p.Workflow
    IN  IF workflowName \notin DOMAIN config.Workflows
          THEN [steps |-> <<>>,
                err |-> <<Error("no_workflow", -1, "", "", workflowName)>>,
                logged |-> <<>>]
        ELSE LET workflow == config.Workflows[workflowName]
                 meta == buildMeta(r, log, repoDir, workspace, relProjectPath,
                                   extraCommentArgs, username)
                 stepsConfig == StageSteps(stageName, workflow)
             IN  [steps |-> BuildSteps(stepsConfig, meta, 1, <<>>),
                  err |-> Nil, logged |-> <<>>]

\* Variant: a workflow name the map lacks falls back to the defaults.
BuildProjectMissingToDefaults(r, config, p, stageName, log, repoDir, workspace, relProjectPath, extraCommentArgs, username, defaults) ==
    LET workflowName == p.Workflow
    IN  IF workflowName = "" \/ workflowName \notin DOMAIN config.Workflows
          THEN [steps |-> defaults, err |-> Nil, logged |-> <<"no workflow set">>]
        ELSE LET workflow == config.Workflows[workflowName]
                 meta == buildMeta(r, log, repoDir, workspace, relProjectPath,
                                   extraCommentArgs, username)
                 stepsConfig == StageSteps(stageName, workflow)
             IN  [steps |-> BuildSteps(stepsConfig, meta, 1, <<>>),
                  err |-> Nil, logged |-> <<>>]

\* Variant: a stage the workflow declares no steps for gets the defaults.
BuildProjectEmptyToDefaults(r, config, p, stageName, log, repoDir, workspace, relProjectPath, extraCommentArgs, username, defaults) ==
    LET workflowName == p.Workflow
    IN  IF workflowName = ""
          THEN [steps |-> defaults, err |-> Nil, logged |-> <<"no workflow set">>]
        ELSE IF workflowName \notin DOMAIN config.Workflows
          THEN [steps |-> <<>>,
                err |-> <<Error("no_workflow", -1, "", "", workflowName)>>,
                logged |-> <<>>]
        ELSE LET workflow == config.Workflows[workflowName]
                 meta == buildMeta(r, log, repoDir, workspace, relProjectPath,
                                   extraCommentArgs, username)
                 stepsConfig == StageSteps(stageName, workflow)
             IN  IF Len(stepsConfig) = 0
                   THEN [steps |-> defaults, err |-> Nil, logged |-> <<>>]
                   ELSE [steps |-> BuildSteps(stepsConfig, meta, 1, <<>>),
                         err |-> Nil, logged |-> <<>>]

\* The body of the loop for the matching project p.  Returns the steps, the
\* error and the messages given to log.Info.
BuildProject(r, config, p, stageName, log, repoDir, workspace, relProjectPath, extraCommentArgs, username, defaults) ==
    LET workflowName == p.Workflow
    IN  IF workflowName = ""
          THEN [steps |-> defaults, err |-> Nil, logged |-> <<"no workflow set">>]
        ELSE IF workflowName \notin DOMAIN config.Workflows
          THEN [steps |-> <<>>,
                err |-> <<Error("no_workflow", -1, "", "", workflowName)>>,
                logged |-> <<>>]
        ELSE LET workflow == config.Workflows[workflowName]
                 meta == buildMeta(r, log, repoDir, workspace, relProjectPath,
                                   extraCommentArgs, username)
                 stepsConfig == StageSteps(stageName, workflow)
             IN  [steps |-> BuildSteps(stepsConfig, meta, 1, <<>>),
                  err |-> Nil, logged |-> <<>>]

\* Variant: a load error is dropped and the defaults are returned.
BuildStageDroppingLoadError(r, files, stageName, log, repoDir, workspace, relProjectPath, extraCommentArgs, username, defaults) ==
    LET rc == ReadConfig(files, repoDir)
    IN  IF rc.err # Nil \/ rc.config = <<>>
          THEN [steps |-> defaults, err |-> Nil, logged |-> <<"no file found">>]
        ELSE LET config == rc.config[1]
                 i == FirstMatch(config.Projects, relProjectPath, workspace, 1)
             IN  IF i # 0
                   THEN BuildProject(r, config, config.Projects[i], stageName,
                                     log, repoDir, workspace, relProjectPath,
                                     extraCommentArgs, username, defaults)
                   ELSE [steps |-> <<>>,
                         err |-> <<Error("no_project", -1, relProjectPath,
                                         workspace, "")>>,
                         logged |-> <<>>]

BuildStage(r, files, stageName, log, repoDir, workspace, relProjectPath, extraCommentArgs, username, defaults) ==
    LET rc == ReadConfig(files, repoDir)
    IN  IF rc.err # Nil
          THEN [steps |-> <<>>, err |-> rc.err, logged |-> <<>>]
        ELSE IF rc.config = <<>>
          THEN [steps |-> defaults, err |-> Nil, logged |-> <<"no file found">>]
        ELSE LET config == rc.config[1]
                 i == FirstMatch(config.Projects, relProjectPath, workspace, 1)
             IN  IF i # 0
                   THEN BuildProject(r, config, config.Projects[i], stageName,
                                     log, repoDir, workspace, relProjectPath,
                                     extraCommentArgs, username, defaults)
                   ELSE [steps |-> <<>>,
                         err |-> <<Error("no_project", -1, relProjectPath,
                                         workspace, "")>>,
                         logged |-> <<>>]

\* Returns (*PlanStage, error): stage is <<>> for the nil pointer.
BuildPlanStage(r, files, log, repoDir, workspace, relProjectPath, extraCommentArgs, username) ==
    LET defaults == defaultPlanSteps(r, log, repoDir, workspace, relProjectPath,
                                     extraCommentArgs, username)
        b == BuildStage(r, files, PlanStageName, log, repoDir, workspace,
                        relProjectPath, extraCommentArgs, username, defaults)
    IN  IF b.err # Nil
          THEN [stage |-> <<>>, err |-> b.err, logged |-> b.logged]
          ELSE [stage |-> <<[Steps |-> b.steps]>>, err |-> Nil, logged |-> b.logged]

\* Returns (*ApplyStage, error): stage is <<>> for the nil pointer.
BuildApplyStage(r, files, log, repoDir, workspace, relProjectPath, extraCommentArgs, username) ==
    LET defaults == defaultApplySteps(r, log, repoDir, workspace, relProjectPath,
                                      extraCommentArgs, username)
        b == BuildStage(r, files, ApplyStageName, log, repoDir, workspace,
                        relProjectPath, extraCommentArgs, username, defaults)
    IN  IF b.err # Nil
          THEN [stage |-> <<>>, err |-> b.err, logged |-> b.logged]
          ELSE [stage |-> <<[Steps |-> b.steps]>>, err |-> Nil, logged |-> b.logged]

----------------------------------------------------------------------------
(* Inputs *)

\* checkouts: only the first ever holds a configuration file
RepoDirs == {"/repo", "/bare"}
ConfiguredRepoDir == "/repo"
Workspaces == {"default", "staging"}
\* project paths a call asks for
RelProjectPaths == {"proj", "other"}
\* dir keys a configuration declares
Dirs == {"", "proj"}
WorkflowKeys == {"custom1", "custom2"}
\* workflow names a project refers to
WorkflowRefs == {"", "custom1"}
ExtraCommentArgs == {<<>>, <<"-var">>}
Usernames == {"alice", "bob"}
TFVersions == {"0.11.7", "0.11.10"}
Logger == "log"

StepConfigs ==
    {[StepType |-> "init", ExtraArgs |-> <<"-x">>],
     [StepType |-> "init", ExtraArgs |-> <<>>],
     [StepType |-> "plan", ExtraArgs |-> <<>>],
     [StepType |-> "apply", ExtraArgs |-> <<>>],
     [StepType |-> "custom", ExtraArgs |-> <<>>]}

StepLists == SeqsUpTo(StepConfigs, MaxSteps)

WorkflowConfigs ==
    {[Plan |-> [Steps |-> ps], Apply |-> [Steps |-> as]] :
        <<ps, as>> \in {pa \in StepLists \X StepLists :
                            Len(pa[1]) + Len(pa[2]) <= MaxSteps}}

ProjectConfigs == [Dir : Dirs, Workspace : Workspaces, Workflow : WorkflowRefs]

\* the workflows key absent from the file
NoWorkflows == <<>>

\* workflows maps paired with every projects list
SampleWorkflows ==
    {NoWorkflows,
     [k \in {"custom1"} |->
        [Plan |-> [Steps |-> <<[StepType |-> "init", ExtraArgs |-> <<"-x">>],
                               [StepType |-> "plan", ExtraArgs |-> <<>>]>>],
         Apply |-> [Steps |-> <<>>]]],
     [k \in {"custom1"} |->
        [Plan |-> [Steps |-> <<[StepType |-> "plan", ExtraArgs |-> <<>>]>>],
         Apply |-> [Steps |-> <<[StepType |-> "custom", ExtraArgs |-> <<>>],
                                [StepType |-> "apply", ExtraArgs |-> <<>>]>>]]]}

\* projects lists paired with every workflows map
SampleProjects ==
    {<<[Dir |-> "proj", Workspace |-> "default", Workflow |-> "custom1"]>>,
     <<[Dir |-> "proj", Workspace |-> "staging", Workflow |-> ""],
       [Dir |-> "proj", Workspace |-> "default", Workflow |-> "custom1"]>>}

\* decoded documents: every projects list with the sample workflows, and
\* every one-workflow map with the sample projects
RepoConfigs ==
    {[Version |-> v, Projects |-> ps, Workflows |-> ws] :
        v \in {1, SupportedVersion},
        ps \in SeqsUpTo(ProjectConfigs, MaxProjects),
        ws \in SampleWorkflows}
    \cup
    {[Version |-> SupportedVersion, Projects |-> ps,
      Workflows |-> [k \in {key} |-> wf]] :
        ps \in SampleProjects, key \in WorkflowKeys, wf \in WorkflowConfigs}

\* contents of a file: what yaml.UnmarshalStrict makes of its bytes
FileData ==
    {[form |-> "malformed", cfg |-> ZeroConfig],
     [form |-> "unknown_field", cfg |-> ZeroConfig]}
    \cup {[form |-> "schema_ok", cfg |-> c] : c \in RepoConfigs}

Files ==
    {[readable |-> FALSE, data |-> [form |-> "malformed", cfg |-> ZeroConfig]]}
    \cup {[readable |-> TRUE, data |-> d] : d \in FileData}

ConfigPath == Join(ConfiguredRepoDir, AtlantisYAMLFilename)

\* the filesystem: no file at all, or one atlantis.yaml in the configured
\* checkout
FileSystems == {<<>>} \cup {[p \in {ConfigPath} |-> f] : f \in Files}

----------------------------------------------------------------------------
(* The state machine *)

\* A call keeps nothing: it writes neither the Reader nor the filesystem, so
\* a second call in the same behaviour would return what it returns as the
\* first call of another.  Each behaviour therefore makes one call, on the
\* Reader and filesystem Init chose.

NoArgs ==
    [repoDir |-> "", workspace |-> "", relProjectPath |-> "",
     extraCommentArgs |-> <<>>, username |-> ""]

Init ==
    /\ reader \in [TerraformExecutor : {"terraform"}, DefaultTFVersion : TFVersions]
    /\ fs \in FileSystems
    /\ ret = [op |-> "none", args |-> NoArgs, data |-> <<>>, config |-> <<>>,
              stage |-> <<>>, err |-> Nil, logged |-> <<>>]

\* r.ParseAndValidate(configData), on the bytes of the configuration file
CallParseAndValidate ==
    /\ ret.op = "none"
    /\ ConfigPath \in DOMAIN fs
    /\ fs[ConfigPath].readable
    /\ LET configData == fs[ConfigPath].data
           pv == ParseAndValidate(configData)
       IN  ret' = [op |-> "ParseAndValidate", args |-> NoArgs,
                   data |-> <<configData>>, config |-> <<pv.config>>,
                   stage |-> <<>>, err |-> pv.err, logged |-> <<>>]
    /\ UNCHANGED <<reader, fs>>

\* r.ReadConfig(repoDir)
CallReadConfig ==
    /\ ret.op = "none"
    /\ \E repoDir \in RepoDirs :
         LET rc == ReadConfig(fs, repoDir)
         IN  ret' = [op |-> "ReadConfig",
                     args |-> [NoArgs EXCEPT !.repoDir = repoDir],
                     data |-> <<>>, config |-> rc.config, stage |-> <<>>,
                     err |-> rc.err, logged |-> <<>>]
    /\ UNCHANGED <<reader, fs>>

\* r.BuildPlanStage(log, repoDir, workspace, relProjectPath, extraCommentArgs, username)
CallBuildPlanStage ==
    /\ ret.op = "none"
    /\ \E repoDir \in RepoDirs, workspace \in Workspaces,
          relProjectPath \in RelProjectPaths,
          extraCommentArgs \in ExtraCommentArgs, username \in Usernames :
         LET b == BuildPlanStage(reader, fs, Logger, repoDir, workspace,
                                 relProjectPath, extraCommentArgs, username)
         IN  ret' = [op |-> "BuildPlanStage",
                     args |-> [repoDir |-> repoDir, workspace |-> workspace,
                               relProjectPath |-> relProjectPath,
                               extraCommentArgs |-> extraCommentArgs,
                               username |-> username],
                     data |-> <<>>, config |-> <<>>, stage |-> b.stage,
                     err |-> b.err, logged |-> b.logged]
    /\ UNCHANGED <<reader, fs>>

\* r.BuildApplyStage(log, repoDir, workspace, relProjectPath, extraCommentArgs, username)
CallBuildApplyStage ==
    /\ ret.op = "none"
    /\ \E repoDir \in RepoDirs, workspace \in Workspaces,
          relProjectPath \in RelProjectPaths,
          extraCommentArgs \in ExtraCommentArgs, username \in Usernames :
         LET b == BuildApplyStage(reader, fs, Logger, repoDir, workspace,
                                  relProjectPath, extraCommentArgs, username)
         IN  ret' = [op |-> "BuildApplyStage",
                     args |-> [repoDir |-> repoDir, workspace |-> workspace,
                               relProjectPath |-> relProjectPath,
                               extraCommentArgs |-> extraCommentArgs,
                               username |-> username],
                     data |-> <<>>, config |-> <<>>, stage |-> b.stage,
                     err |-> b.err, logged |-> b.logged]
    /\ UNCHANGED <<reader, fs>>

Next ==
    \/ CallParseAndValidate
    \/ CallReadConfig
    \/ CallBuildPlanStage
    \/ CallBuildApplyStage

Spec == Init /\ [][Next]_vars

----------------------------------------------------------------------------
(* Vocabulary of the properties: the call ret records, read against the     *)
(* filesystem and the Reader it ran on                                      *)

IsBuild == ret.op \in {"BuildPlanStage", "BuildApplyStage"}

\* the configuration file of the checkout the call named
CalledPath == Join(ret.args.repoDir, AtlantisYAMLFilename)
FileAbsent == CalledPath \notin DOMAIN fs
FileUnreadable == ~FileAbsent /\ ~fs[CalledPath].readable
FileUndecodable ==
    ~FileAbsent /\ fs[CalledPath].readable
    /\ fs[CalledPath].data.form # "schema_ok"
FileDecoded ==
    ~FileAbsent /\ fs[CalledPath].readable
    /\ fs[CalledPath].data.form = "schema_ok"
Cfg == fs[CalledPath].data.cfg

\* the three rules of validation, each on its own
VersionOK(c) == c.Version = 2
ProjectsOK(c) == c.Projects # <<>>
EmptyDirs(c) == {i \in 1..Len(c.Projects) : c.Projects[i].Dir = ""}
Least(S) == CHOOSE i \in S : \A j \in S : i <= j

ConfigValid == FileDecoded /\ VersionOK(Cfg) /\ ProjectsOK(Cfg) /\ EmptyDirs(Cfg) = {}

\* positions of the projects with the requested (dir, workspace)
MatchingProjects ==
    {i \in 1..Len(Cfg.Projects) :
        /\ Cfg.Projects[i].Dir = ret.args.relProjectPath
        /\ Cfg.Projects[i].Workspace = ret.args.workspace}
FirstMatching == Cfg.Projects[Least(MatchingProjects)]

\* the first matching project names a workflow the workflows map defines
WorkflowResolved ==
    /\ IsBuild /\ ConfigValid /\ MatchingProjects # {}
    /\ FirstMatching.Workflow # ""
    /\ FirstMatching.Workflow \in DOMAIN Cfg.Workflows

\* the steps that workflow declares for the stage the call asked for
DeclaredSteps ==
    IF ret.op = "BuildPlanStage"
      THEN Cfg.Workflows[FirstMatching.Workflow].Plan.Steps
      ELSE Cfg.Workflows[FirstMatching.Workflow].Apply.Steps

Recognized(sc) == sc.StepType \in {"init", "plan", "apply"}

\* the StepMeta of the call
CallMeta ==
    [Log |-> Logger,
     Workspace |-> ret.args.workspace,
     AbsolutePath |-> <<ret.args.repoDir, ret.args.relProjectPath>>,
     DirRelativeToRepoRoot |-> ret.args.relProjectPath,
     TerraformVersion |-> reader.DefaultTFVersion,
     TerraformExecutor |-> reader.TerraformExecutor,
     ExtraCommentArgs |-> ret.args.extraCommentArgs,
     Username |-> ret.args.username]

\* the built-in default pipeline of the stage the call asked for
DefaultPipeline ==
    IF ret.op = "BuildPlanStage"
      THEN <<[Type |-> "init", ExtraArgs |-> <<>>, Meta |-> CallMeta],
             [Type |-> "plan", ExtraArgs |-> <<>>, Meta |-> CallMeta]>>
      ELSE <<[Type |-> "apply", ExtraArgs |-> <<>>, Meta |-> CallMeta]>>

ReturnedDefaults == ret.err = Nil /\ ret.stage = <<[Steps |-> DefaultPipeline]>>
ReturnedError(e) == ret.stage = <<>> /\ ret.err = <<e>>

----------------------------------------------------------------------------
(* Properties *)

\* C1: when the configuration file of the checkout is absent, ReadConfig
\* returns the nil configuration and no error, and BuildPlanStage and
\* BuildApplyStage return exactly the default pipeline of their stage
\* ([Init, Plan] and [Apply], no extra args), whatever the workspace, project
\* path, extra arguments and username.
C1_AbsentFileGivesDefaults ==
    /\ (ret.op = "ReadConfig" /\ FileAbsent) => (ret.config = <<>> /\ ret.err = Nil)
    /\ (IsBuild /\ FileAbsent) => ReturnedDefaults

C1_Witness ==
    /\ ret.op = "BuildApplyStage" /\ FileAbsent
    /\ fs # <<>>
    /\ ret.args.extraCommentArgs # <<>>
    /\ ret.stage # <<>> /\ Len(ret.stage[1].Steps) = 1

\* C2: validation of a decoded configuration checks version, then projects,
\* then dir, and reports the first failure only: the version error when
\* version is not 2, whatever the projects; else the projects error when
\* projects is empty; else the dir error naming the smallest index (counted
\* from 0) of a project with an empty dir; and no error only when none fails.
C2_ValidationOrder ==
    (ret.op = "ParseAndValidate" /\ ret.data[1].form = "schema_ok") =>
        LET c == ret.data[1].cfg
        IN  /\ ~VersionOK(c) => ret.err = <<Error("version", -1, "", "", "")>>
            /\ (VersionOK(c) /\ ~ProjectsOK(c)) =>
                  ret.err = <<Error("projects", -1, "", "", "")>>
            /\ (VersionOK(c) /\ ProjectsOK(c) /\ EmptyDirs(c) # {}) =>
                  ret.err = <<Error("dir", Least(EmptyDirs(c)) - 1, "", "", "")>>
            /\ ret.err = Nil <=>
                  (VersionOK(c) /\ ProjectsOK(c) /\ EmptyDirs(c) = {})

C2_Witness ==
    /\ ret.op = "ParseAndValidate" /\ ret.data[1].form = "schema_ok"
    /\ VersionOK(ret.data[1].cfg)
    /\ Len(ret.data[1].cfg.Projects) >= 2
    /\ ret.data[1].cfg.Projects[1].Dir # ""
    /\ ret.data[1].cfg.Projects[2].Dir = ""
    /\ ret.err # Nil /\ ret.err[1].kind = "dir" /\ ret.err[1].index = 1

\* C3: with a valid configuration in which no project has exactly the
\* requested (dir, workspace), building either stage fails with the lookup
\* error naming the requested dir and workspace and returns no stage; the
\* default pipeline is not used.
C3_NoMatchIsError ==
    (IsBuild /\ ConfigValid /\ MatchingProjects = {}) =>
        /\ ReturnedError(Error("no_project", -1, ret.args.relProjectPath,
                               ret.args.workspace, ""))
        /\ ret.logged = <<>>

C3_Witness ==
    /\ IsBuild /\ ConfigValid /\ MatchingProjects = {}
    /\ \E i \in 1..Len(Cfg.Projects) :
          /\ Cfg.Projects[i].Dir = ret.args.relProjectPath
          /\ Cfg.Projects[i].Workflow = ""
    /\ ret.err # Nil /\ ret.err[1].kind = "no_project"

\* C4: when the first project matching the request has an empty workflow
\* name, building either stage returns the default pipeline of the stage and
\* no error, whatever the workflows map holds.
C4_EmptyWorkflowGivesDefaults ==
    (IsBuild /\ ConfigValid /\ MatchingProjects # {}
        /\ FirstMatching.Workflow = "") => ReturnedDefaults

C4_Witness ==
    /\ IsBuild /\ ConfigValid /\ MatchingProjects # {}
    /\ FirstMatching.Workflow = ""
    /\ DOMAIN Cfg.Workflows # {}
    /\ ret.stage # <<>> /\ ret.logged = <<"no workflow set">>

\* C5: when the first project matching the request names a non-empty
\* workflow that is not a key of workflows, building either stage fails with
\* the lookup error naming that workflow and returns no stage.
C5_MissingWorkflowIsError ==
    (IsBuild /\ ConfigValid /\ MatchingProjects # {}
        /\ FirstMatching.Workflow # ""
        /\ FirstMatching.Workflow \notin DOMAIN Cfg.Workflows) =>
        /\ ReturnedError(Error("no_workflow", -1, "", "", FirstMatching.Workflow))
        /\ ret.logged = <<>>

C5_Witness ==
    /\ IsBuild /\ ConfigValid /\ MatchingProjects # {}
    /\ FirstMatching.Workflow # ""
    /\ FirstMatching.Workflow \notin DOMAIN Cfg.Workflows
    /\ DOMAIN Cfg.Workflows # {}
    /\ ret.err # Nil /\ ret.err[1].kind = "no_workflow"

\* C6: when the matching project's workflow exists and every step the
\* requested stage declares is of type init, plan or apply, the returned list
\* mirrors the declared steps of that stage alone: same length, same order,
\* the i-th step of the i-th declared type with the i-th extra_args, every
\* step carrying the StepMeta of the call.
C6_StepsMirrorDeclaration ==
    (WorkflowResolved /\ \A i \in 1..Len(DeclaredSteps) : Recognized(DeclaredSteps[i])) =>
        /\ ret.err = Nil /\ ret.stage # <<>>
        /\ Len(ret.stage[1].Steps) = Len(DeclaredSteps)
        /\ \A i \in 1..Len(DeclaredSteps) :
              /\ ret.stage[1].Steps[i].Type = DeclaredSteps[i].StepType
              /\ ret.stage[1].Steps[i].ExtraArgs = DeclaredSteps[i].ExtraArgs
              /\ ret.stage[1].Steps[i].Meta = CallMeta

C6_Witness ==
    /\ WorkflowResolved
    /\ Len(DeclaredSteps) = 2
    /\ DeclaredSteps[1].StepType = "init" /\ DeclaredSteps[1].ExtraArgs = <<"-x">>
    /\ DeclaredSteps[2].StepType = "plan"
    /\ ret.stage # <<>> /\ Len(ret.stage[1].Steps) = 2
    /\ ret.stage[1].Steps[1].ExtraArgs = <<"-x">>

RECURSIVE RecognizedSteps(_, _)
\* the declared steps from position pos on with the unrecognized ones left
\* out, each as the step of its type
RecognizedSteps(declared, pos) ==
    IF pos > Len(declared) THEN <<>>
    ELSE IF Recognized(declared[pos])
      THEN <<[Type |-> declared[pos].StepType,
              ExtraArgs |-> declared[pos].ExtraArgs,
              Meta |-> CallMeta]>> \o RecognizedSteps(declared, pos + 1)
      ELSE RecognizedSteps(declared, pos + 1)

\* C7: a declared step of a type other than init, plan and apply is left out
\* of the returned list: the list holds the recognized steps only, shorter
\* than the declaration by the number of unrecognized steps, and no error is
\* returned.
C7_UnrecognizedOmitted ==
    WorkflowResolved =>
        /\ ret.err = Nil /\ ret.stage # <<>>
        /\ ret.stage[1].Steps = RecognizedSteps(DeclaredSteps, 1)

RECURSIVE WithoutLaterMatches(_, _, _)
\* the projects from position pos on without the entries that match the
\* request, when seen says a matching entry came before; the first matching
\* entry stays
WithoutLaterMatches(projects, pos, seen) ==
    IF pos > Len(projects) THEN <<>>
    ELSE LET m == /\ projects[pos].Dir = ret.args.relProjectPath
                  /\ projects[pos].Workspace = ret.args.workspace
         IN  IF m /\ seen
               THEN WithoutLaterMatches(projects, pos + 1, TRUE)
               ELSE <<projects[pos]>>
                    \o WithoutLaterMatches(projects, pos + 1, seen \/ m)

\* the filesystem with the later matching entries taken out of the file
FirstMatchOnlyFs ==
    [fs EXCEPT ![CalledPath].data.cfg.Projects = WithoutLaterMatches(@, 1, FALSE)]

\* the same call on another filesystem
SameCallOn(files) ==
    IF ret.op = "BuildPlanStage"
      THEN BuildPlanStage(reader, files, Logger, ret.args.repoDir,
                          ret.args.workspace, ret.args.relProjectPath,
                          ret.args.extraCommentArgs, ret.args.username)
      ELSE BuildApplyStage(reader, files, Logger, ret.args.repoDir,
                           ret.args.workspace, ret.args.relProjectPath,
                           ret.args.extraCommentArgs, ret.args.username)

\* C8: when several projects have the requested (dir, workspace), the one
\* declared first decides alone: the call returns what it returns on the
\* configuration with every later matching entry removed, also when the first
\* fails and a later one would have succeeded.
C8_FirstMatchDecides ==
    (IsBuild /\ ConfigValid /\ Cardinality(MatchingProjects) >= 2) =>
        LET b == SameCallOn(FirstMatchOnlyFs)
        IN  /\ ret.stage = b.stage
            /\ ret.err = b.err
            /\ ret.logged = b.logged

C8_Witness ==
    /\ IsBuild /\ ConfigValid /\ Cardinality(MatchingProjects) >= 2
    /\ FirstMatching.Workflow # ""
    /\ FirstMatching.Workflow \notin DOMAIN Cfg.Workflows
    /\ \E i \in MatchingProjects : Cfg.Projects[i].Workflow = ""
    /\ ret.stage = <<>> /\ ret.err # Nil

\* the file exists and loading it ends in an error
LoadFails == FileUnreadable \/ FileUndecodable \/ (FileDecoded /\ ~ConfigValid)

\* C9: when loading ends in an error (unreadable file, failed strict
\* decoding, failed validation), building either stage returns that error
\* and no stage, for every requested project and workspace; the default
\* pipeline is not returned.
C9_LoadErrorPropagates ==
    (IsBuild /\ LoadFails) =>
        /\ ret.stage = <<>>
        /\ ret.err # Nil
        /\ ret.err = ReadConfig(fs, ret.args.repoDir).err
        /\ ret.err[1].kind \in {"io", "yaml", "version", "projects", "dir"}
        /\ ret.logged = <<>>

C9_Witness ==
    /\ IsBuild /\ FileDecoded /\ ~ConfigValid
    /\ VersionOK(Cfg) /\ ProjectsOK(Cfg)
    /\ ret.stage = <<>> /\ ret.err # Nil /\ ret.err[1].kind = "dir"
    /\ ret.err[1].wrap = <<"parsing atlantis.yaml">>

\* C10: once the matching project names a workflow that exists, the default
\* pipeline is not used: no fallback to the defaults is taken, the returned
\* list has one entry for each step the workflow declares for the requested
\* stage, and when that stage declares no steps the result is the empty list
\* with no error, not the defaults of the stage.  The list equals the default
\* pipeline in value only when the workflow itself declares those very steps.
C10_ResolvedWorkflowNeverDefaults ==
    WorkflowResolved =>
        /\ ret.err = Nil /\ ret.stage # <<>>
        /\ ret.logged = <<>>
        /\ Len(ret.stage[1].Steps) = Len(DeclaredSteps)
        /\ DeclaredSteps = <<>> =>
              (ret.stage[1].Steps = <<>> /\ ret.stage[1].Steps # DefaultPipeline)
        /\ ret.stage[1].Steps = DefaultPipeline =>
              DeclaredSteps = [i \in 1..Len(DefaultPipeline) |->
                                 [StepType |-> DefaultPipeline[i].Type,
                                  ExtraArgs |-> <<>>]]

C10_Witness ==
    /\ WorkflowResolved /\ ret.op = "BuildApplyStage"
    /\ Cfg.Workflows[FirstMatching.Workflow].Apply.Steps = <<>>
    /\ Cfg.Workflows[FirstMatching.Workflow].Plan.Steps # <<>>
    /\ ret.err = Nil /\ ret.stage = <<[Steps |-> <<>>]>>

====
